---- MODULE Spec2Model ----
(***************************************************************************)
(* The two Snake components of the repository as one state machine.        *)
(*                                                                         *)
(*   snake-game-chatgpt/src/components/SnakeGame.jsx   (impl = "chatgpt")  *)
(*   snake-game-agent/src/components/SnakeGame.jsx     (impl = "agent")    *)
(*                                                                         *)
(* One component is mounted per behaviour (impl never changes).  The       *)
(* variables of the other component keep their initial values.             *)
(*                                                                         *)
(* A step of the model is one browser event with the React render that     *)
(* follows it: an interval/animation-frame callback that advances the      *)
(* game, a keydown, a click on Pause/Resume, a click on Restart.  State    *)
(* updater functions passed to setX(...) are applied within the step.      *)
(*                                                                         *)
(* The board is the source's 20 x 20 torus scaled down (GRID_COLS,         *)
(* GRID_ROWS, ROWS are bounds of the model); the coordinates the source    *)
(* writes as literals are folded onto the board by Cell.  With the three   *)
(* bounds set to 20 the model is the source's board.                       *)
(***************************************************************************)
EXTENDS Integers, Sequences, FiniteSets, TLC

\* ---------------------------------------------------------------- bounds
\* chatgpt: const GRID_ROWS = 20, GRID_COLS = 20 (scaled down)
GRID_ROWS == 3
GRID_COLS == 3
\* agent: const ROWS = CANVAS_SIZE / SCALE = 20 (scaled down)
ROWS == 3
\* no food is eaten once the score of the run has reached MaxScore
MaxScore == 1
\* agent: the value found under the high-score key at startup is 0 or SavedHigh
SavedHigh == 2
\* Math.random() returns one of 0, 1/RandDen, ..., (RandDen - 1)/RandDen
RandDen == 2
\* chatgpt: the period of the interval, 1000 / speed ms, in units of model time
TickPeriod == 2
\* agent: the speed rises by one every 5 points, 8 + Math.floor(next / 5)
\* (scaled down with the score, so that a run reaches the step)
AGENT_SPEED_STEP == 1

\* ------------------------------------------------------ program constants
\* chatgpt: INITIAL_SPEED = 6 ticks per second
INITIAL_SPEED == 6
\* chatgpt: SPEED_INCREASE = 0.5 = 1 / SpeedDen; speed is kept in units of
\* 1 / SpeedDen ticks per second, so that it stays an integer
SpeedDen == 2
SPEED_INCREASE_NUM == 1
\* agent: speedRef = useRef(8), and 8 + Math.floor(next / 5)
AGENT_SPEED == 8

VARIABLES
    impl,          \* which component is mounted
    \* ---- chatgpt: useState values
    snake, dir, nextDir, food, speed, running, score, highScore,
    storage,       \* localStorage['snake_highscore']
    timed,         \* whether the behaviour keeps the time of the interval
    sinceArmed,    \* time since setInterval was last called (0 when not timed)
    \* ---- agent: refs, useState values, localStorage
    snakeRef, velocityRef, appleRef, scoreRef, speedRef,
    aScore, aHighScore, aRunning,
    aStorage,      \* localStorage['snake_high_score']
    loopScore,     \* `score` as captured by the closure the loop effect holds
    loopHighScore, \* `highScore` as captured by that closure
    \* ---- a call of placeFood on its own
    callArg,       \* the argument (snakeArr)
    callRet,       \* <<the cell returned>>, << >> before the call
    \* ---- history
    prevMove,      \* direction used by the previous advance of this run
    terminated,    \* a tick found a self-collision and no reset followed
    queued         \* the last direction input since the previous advance that
                   \* was not the negation of the active direction, else null

chatVars == <<snake, dir, nextDir, food, speed, running, score, highScore, storage,
              timed, sinceArmed>>
agentVars == <<snakeRef, velocityRef, appleRef, scoreRef, speedRef, aScore,
               aHighScore, aRunning, aStorage, loopScore, loopHighScore>>
callVars == <<callArg, callRet>>
vars == <<impl, chatVars, agentVars, callVars, prevMove, terminated, queued>>

\* ---------------------------------------------------------------- values
\* JS null / "no direction", "no cell": a record of the shape of the others
null == [x |-> 0, y |-> 0]

Right == [x |-> 1, y |-> 0]
Left == [x |-> -1, y |-> 0]
Up == [x |-> 0, y |-> -1]
Down == [x |-> 0, y |-> 1]
Dirs == {Right, Left, Up, Down}

Neg(d) == [x |-> -d.x, y |-> -d.y]

\* a coordinate pair of the source folded onto a board of cols x rows
Cell(x, y, cols, rows) == [x |-> x % cols, y |-> y % rows]

Max(a, b) == IF a > b THEN a ELSE b

\* the cells of a snake, as a set
CellSet(s) == {s[i] : i \in 1..Len(s)}

\* no pop at all: the sequence as it is
PopNothing(s) == s

\* Array.prototype.shift in the place of pop: the sequence without its first
\* element
Shift(s) == SubSeq(s, 2, Len(s))

\* Array.prototype.pop: the sequence without its last element
Pop(s) == SubSeq(s, 1, Len(s) - 1)

\* Math.floor(Math.random() * n), Math.random() being k / RandDen
randomFloor(k, n) == (k * n) \div RandDen

\* =================================================================
\* chatgpt implementation
\* =================================================================

\* JS remainder n % m: truncated division, the sign of the dividend
JsRem(n, m) == IF n >= 0 THEN n % m ELSE -((-n) % m)

\* mod without its "+ m": the JS remainder alone, negative for n = -1
modRemainderOnly(n, m) == JsRem(n, m)

\* function mod(n, m) { return ((n % m) + m) % m }
mod(n, m) == JsRem(JsRem(n, m) + m, m)

\* const INITIAL_SNAKE = [{9,9},{8,9},{7,9}], head first
INITIAL_SNAKE == <<Cell(9, 9, GRID_COLS, GRID_ROWS), Cell(8, 9, GRID_COLS, GRID_ROWS),
                   Cell(7, 9, GRID_COLS, GRID_ROWS)>>

\* the direction of a tick that does not look at the queued direction
currentDirNotQueued == dir

\* tick: const currentDir = nextDir || dir
currentDir == IF nextDir # null THEN nextDir ELSE dir

\* tick: const newHead = { x: mod(head.x + currentDir.x, GRID_COLS), y: ... }
newHead(head, d) == [x |-> mod(head.x + d.x, GRID_COLS), y |-> mod(head.y + d.y, GRID_ROWS)]

\* the collision test that leaves out the cell the tail is about to vacate
hitsSelfButTail(prev, h) == \E i \in 1..(Len(prev) - 1) : prev[i].x = h.x /\ prev[i].y = h.y

\* the collision test that looks at the head and the segment behind it only
hitsSelfNeckOnly(prev, h) == \E i \in 1..2 : prev[i].x = h.x /\ prev[i].y = h.y

\* tick: prev.some((s) => s.x === newHead.x && s.y === newHead.y)
hitsSelf(prev, h) == \E i \in 1..Len(prev) : prev[i].x = h.x /\ prev[i].y = h.y

\* placeFood: the free cells in the order of the scan, x outer and y inner
scanOrder == [k \in 1..(GRID_COLS * GRID_ROWS) |->
                 [x |-> (k - 1) \div GRID_ROWS, y |-> (k - 1) % GRID_ROWS]]

\* the scan without the test on `occupied`: every cell counts as free
allCells(snakeArr) == scanOrder

freeCells(snakeArr) == SelectSeq(scanOrder, LAMBDA c : c \notin CellSet(snakeArr))

\* placeFood(snakeArr): every cell it can return, free[Math.floor(Math.random() *
\* free.length)]; with no free cell it returns {0,0}.
placeFood(snakeArr) ==
    LET free == freeCells(snakeArr)
    IN  IF Len(free) = 0
        THEN {[x |-> 0, y |-> 0]}
        ELSE {free[randomFloor(k, Len(free)) + 1] : k \in 0..(RandDen - 1)}

\* the useState initialisers; highScore is read from localStorage, which holds
\* no high score yet (a first visit): Number(null || 0) = 0
ChatInit ==
    /\ snake = INITIAL_SNAKE
    /\ dir = Right
    /\ nextDir = null
    /\ food \in placeFood(INITIAL_SNAKE)
    /\ speed = INITIAL_SPEED * SpeedDen
    /\ running = TRUE
    /\ score = 0
    /\ storage = 0
    /\ highScore = storage
    /\ sinceArmed = 0

\* the reverse test with || in the place of &&
isReverseEitherAxis(a, b) == a.x + b.x = 0 \/ a.y + b.y = 0

\* trySetDir: dir.x + newDir.x === 0 && dir.y + newDir.y === 0
isReverse(a, b) == a.x + b.x = 0 /\ a.y + b.y = 0

\* an interval that is set whether the game is running or not
intervalAlways == TRUE

\* main loop effect: `if (!running) return` before setInterval, and the cleanup
\* clears the interval: there is an interval exactly while running
intervalRuns == running

\* the interval's callback is due one period after setInterval (at any moment
\* in the behaviours that do not keep the time)
intervalDue == ~timed \/ sinceArmed = TickPeriod

\* trySetDir(newDir), from a keydown or a swipe.  newDir is a new object at
\* every call, so setNextDir(newDir) changes the state even when the same
\* direction is queued again, and the main loop effect, which depends on
\* nextDir, clears the interval and sets a new one.
trySetDir(newDir) ==
    /\ impl = "chatgpt"
    /\ IF dir = null
       THEN /\ dir' = newDir
            /\ nextDir' = nextDir
            /\ sinceArmed' = 0
       ELSE IF isReverse(dir, newDir)
       THEN UNCHANGED <<dir, nextDir, sinceArmed>>
       ELSE /\ nextDir' = newDir
            /\ dir' = dir
            /\ sinceArmed' = 0
    /\ queued' = IF newDir = Neg(dir) THEN queued ELSE newDir
    /\ UNCHANGED <<impl, snake, food, speed, running, score, highScore, storage, timed,
                   agentVars, callVars, prevMove, terminated>>

\* handleGameOver(): setRunning(false), highScore = Math.max(hs, score), stored
handleGameOver ==
    /\ running' = FALSE
    /\ highScore' = Max(highScore, score)
    /\ storage' = Max(highScore, score)

\* tick(), fired by the interval; the render that follows sets a new interval
\* (snake is a new array) or none (the game is over)
tick ==
    /\ impl = "chatgpt"
    /\ intervalRuns
    /\ intervalDue
    /\ sinceArmed' = 0
    /\ queued' = null
    /\ LET prev == snake
           d == currentDir
           h == newHead(prev[1], d)
       IN  /\ dir' = d
           /\ nextDir' = null
           /\ prevMove' = d
           /\ IF hitsSelf(prev, h)
              THEN /\ handleGameOver
                   /\ snake' = prev
                   /\ terminated' = TRUE
                   /\ UNCHANGED <<food, score, speed>>
              ELSE /\ UNCHANGED <<running, highScore, storage, terminated>>
                   /\ IF h.x = food.x /\ h.y = food.y
                      THEN /\ score < MaxScore
                           /\ score' = score + 1
                           /\ speed' = speed + SPEED_INCREASE_NUM
                           /\ food' \in placeFood(<<h>> \o prev)
                           /\ snake' = <<h>> \o prev
                      ELSE /\ snake' = Pop(<<h>> \o prev)
                           /\ UNCHANGED <<food, score, speed>>
    /\ UNCHANGED <<impl, timed, agentVars, callVars>>

\* toggleRunning(), from the space key or the Pause/Resume button
toggleRunning ==
    /\ impl = "chatgpt"
    /\ running' = ~running
    /\ sinceArmed' = 0
    /\ UNCHANGED <<impl, snake, dir, nextDir, food, speed, score, highScore, storage, timed,
                   agentVars, callVars, prevMove, terminated, queued>>

\* resetGame(), from the R key or the Restart button
resetGame ==
    /\ impl = "chatgpt"
    /\ snake' = INITIAL_SNAKE
    /\ dir' = Right
    /\ nextDir' = null
    /\ food' \in placeFood(INITIAL_SNAKE)
    /\ speed' = INITIAL_SPEED * SpeedDen
    /\ running' = TRUE
    /\ score' = 0
    /\ sinceArmed' = 0
    /\ prevMove' = null
    /\ terminated' = FALSE
    /\ queued' = null
    /\ UNCHANGED <<impl, highScore, storage, timed, agentVars, callVars>>

\* one unit of time passes while the interval is waiting
elapse ==
    /\ impl = "chatgpt"
    /\ timed
    /\ intervalRuns
    /\ sinceArmed < TickPeriod
    /\ sinceArmed' = sinceArmed + 1
    /\ UNCHANGED <<impl, snake, dir, nextDir, food, speed, running, score, highScore,
                   storage, timed, agentVars, callVars, prevMove, terminated, queued>>

ChatNext ==
    \/ \E newDir \in Dirs : trySetDir(newDir)
    \/ tick
    \/ toggleRunning
    \/ resetGame

\* =================================================================
\* agent implementation
\* =================================================================

\* snakeRef = useRef([{x:10,y:10}]), appleRef = useRef({x:5,y:5})
AGENT_SNAKE == <<Cell(10, 10, ROWS, ROWS)>>
AGENT_APPLE == Cell(5, 5, ROWS, ROWS)

\* the wrap with > in the place of >=
wrapAxisOffByOne(c) ==
    LET a == IF c < 0 THEN ROWS - 1 ELSE c
    IN  IF a > ROWS THEN 0 ELSE a

\* update: if(c < 0) c = ROWS - 1; if(c >= ROWS) c = 0, one axis
wrapAxis(c) ==
    LET a == IF c < 0 THEN ROWS - 1 ELSE c
    IN  IF a >= ROWS THEN 0 ELSE a

\* update: the head after head.x += velocity.x, head.y += velocity.y and the wrap
movedHead(head, v) == [x |-> wrapAxis(head.x + v.x), y |-> wrapAxis(head.y + v.y)]

\* update: for(let part of snakeRef.current) if(part.x === head.x && part.y === head.y)
partHit(parts, h) == \E i \in 1..Len(parts) : parts[i].x = h.x /\ parts[i].y = h.y

\* randomApple(): every cell it can return, Math.floor(Math.random() * ROWS) per axis
randomApple ==
    {[x |-> randomFloor(i, ROWS), y |-> randomFloor(j, ROWS)] :
        i \in 0..(RandDen - 1), j \in 0..(RandDen - 1)}

\* the arrow keys of handleKey
ArrowKeys == {"ArrowUp", "ArrowDown", "ArrowLeft", "ArrowRight"}

\* handleKey: the velocity after the key, v being velocityRef.current before it
keyVelocity(key, v) ==
    CASE key = "ArrowUp" -> IF v.y # 1 THEN Up ELSE v
      [] key = "ArrowDown" -> IF v.y # -1 THEN Down ELSE v
      [] key = "ArrowLeft" -> IF v.x # 1 THEN Left ELSE v
      [] key = "ArrowRight" -> IF v.x # -1 THEN Right ELSE v

\* the speed computed from the score before the increment
agentSpeedOfPrev(next) == AGENT_SPEED + ((next - 1) \div AGENT_SPEED_STEP)

\* update: speedRef.current = 8 + Math.floor(next / 5)
agentSpeed(next) == AGENT_SPEED + (next \div AGENT_SPEED_STEP)

\* The component after mounting.  The first render has score = 0 and
\* highScore = 0, and the loop effect, which depends on [running] alone, keeps
\* the closure of that render; the load effect then sets highScore to the saved
\* value and the save effect stores it again.
AgentInit ==
    /\ snakeRef = AGENT_SNAKE
    /\ velocityRef = Right
    /\ appleRef = AGENT_APPLE
    /\ scoreRef = 0
    /\ speedRef = AGENT_SPEED
    /\ aScore = 0
    /\ aRunning = TRUE
    /\ aStorage \in {0, SavedHigh}
    /\ aHighScore = aStorage
    /\ loopScore = 0
    /\ loopHighScore = 0

\* handleKey(e) for an arrow key
handleKey(key) ==
    /\ impl = "agent"
    /\ velocityRef' = keyVelocity(key, velocityRef)
    /\ UNCHANGED <<impl, chatVars, callVars, queued, snakeRef, appleRef, scoreRef, speedRef, aScore,
                   aHighScore, aRunning, aStorage, loopScore, loopHighScore,
                   prevMove, terminated>>

\* setRunning(r => !r), from the space key or the Pause/Resume button; the loop
\* effect runs again and captures the score and highScore of the new render
togglePause ==
    /\ impl = "agent"
    /\ aRunning' = ~aRunning
    /\ loopScore' = aScore
    /\ loopHighScore' = aHighScore
    /\ UNCHANGED <<impl, chatVars, callVars, queued, snakeRef, velocityRef, appleRef, scoreRef, speedRef,
                   aScore, aHighScore, aStorage, prevMove, terminated>>

\* reset(): the refs and state of a fresh game (running is set by the caller's
\* conjunct, the loop closure too)
reset ==
    /\ snakeRef' = AGENT_SNAKE
    /\ velocityRef' = Right
    /\ appleRef' \in randomApple
    /\ scoreRef' = 0
    /\ aScore' = 0
    /\ speedRef' = AGENT_SPEED
    /\ aRunning' = TRUE

\* if(current > highScore) { setHighScore(current); localStorage.setItem(...) },
\* hs being the highScore the calling closure sees
saveHigh(current, hs) ==
    IF current > hs
    THEN /\ aHighScore' = current
         /\ aStorage' = current
    ELSE UNCHANGED <<aHighScore, aStorage>>

\* update(), called by loop when the frame is due and running
update ==
    /\ impl = "agent"
    /\ aRunning
    /\ LET v == velocityRef
           h == movedHead(snakeRef[1], v)
       IN  IF partHit(snakeRef, h)
           THEN /\ saveHigh(IF scoreRef # 0 THEN scoreRef ELSE loopScore, loopHighScore)
                /\ reset
                /\ prevMove' = null
                /\ UNCHANGED <<loopScore, loopHighScore>>
           ELSE /\ prevMove' = v
                /\ UNCHANGED <<velocityRef, aHighScore, aStorage, aRunning,
                               loopScore, loopHighScore>>
                /\ IF h.x = appleRef.x /\ h.y = appleRef.y
                   THEN /\ aScore < MaxScore
                        /\ aScore' = aScore + 1
                        /\ scoreRef' = aScore + 1
                        /\ speedRef' = agentSpeed(aScore + 1)
                        /\ appleRef' \in randomApple
                        /\ snakeRef' = <<h>> \o snakeRef
                   ELSE /\ snakeRef' = Pop(<<h>> \o snakeRef)
                        /\ UNCHANGED <<appleRef, aScore, scoreRef, speedRef>>
    /\ UNCHANGED <<impl, chatVars, callVars, queued, terminated>>

\* the Restart button's onClick; when the game was paused, running changes and
\* the loop effect captures the render that follows
restart ==
    /\ impl = "agent"
    /\ saveHigh(IF scoreRef # 0 THEN scoreRef ELSE aScore, aHighScore)
    /\ reset
    /\ IF aRunning
       THEN UNCHANGED <<loopScore, loopHighScore>>
       ELSE /\ loopScore' = 0
            /\ loopHighScore' = aHighScore'
    /\ prevMove' = null
    /\ UNCHANGED <<impl, chatVars, callVars, queued, terminated>>

AgentNext ==
    \/ \E key \in ArrowKeys : handleKey(key)
    \/ update
    \/ togglePause
    \/ restart

\* =================================================================
\* the specification
\* =================================================================

\* the mounted component (and the other one in its fixed state)
Mounted ==
    /\ impl \in {"chatgpt", "agent"}
    /\ ChatInit
    /\ AgentInit
    \* the component that is not mounted: one fixed initial state
    /\ impl = "chatgpt" => aStorage = 0
    /\ impl = "agent" => storage = 0 /\ food = freeCells(INITIAL_SNAKE)[1]
    /\ prevMove = null
    /\ terminated = FALSE
    /\ queued = null

\* the game, the time of the interval left out
Init ==
    /\ Mounted
    /\ timed = FALSE
    /\ callArg = << >>
    /\ callRet = << >>

Next == ChatNext \/ AgentNext

Spec == Init /\ [][Next]_vars

\* the chatgpt component alone
ChatMounted == Init /\ impl = "chatgpt"

ChatSpec == ChatMounted /\ [][ChatNext]_vars

\* ---- the chatgpt component with the time of its interval: the callback
\* fires once it is due unless the interval is cleared first (strong fairness:
\* a callback that is due again and again does fire), and time does not stop
TimedInit ==
    /\ Mounted
    /\ impl = "chatgpt"
    /\ timed = TRUE
    /\ callArg = << >>
    /\ callRet = << >>

TimedNext == ChatNext \/ elapse

TimedSpec == TimedInit /\ [][TimedNext]_vars /\ WF_vars(elapse) /\ SF_vars(tick)

\* ---- placeFood on its own, called once on each array of grid cells
\* the arrays of distinct grid cells, one per set of cells (placeFood looks
\* at the set of its argument's cells only), the whole grid included
SnakeArrs == {SelectSeq(scanOrder, LAMBDA c : c \in S) : S \in SUBSET CellSet(scanOrder)}

PlaceFoodInit ==
    /\ Mounted
    /\ impl = "chatgpt"
    /\ food = freeCells(INITIAL_SNAKE)[1]
    /\ timed = FALSE
    /\ callArg \in SnakeArrs
    /\ callRet = << >>

\* placeFood(callArg)
callPlaceFood ==
    /\ callRet = << >>
    /\ callRet' \in {<<c>> : c \in placeFood(callArg)}
    /\ UNCHANGED <<impl, chatVars, agentVars, callArg, prevMove, terminated, queued>>

PlaceFoodSpec == PlaceFoodInit /\ [][callPlaceFood]_vars

\* =================================================================
\* the claims
\* =================================================================

\* the cell one step from h in direction d on a torus of cols x rows
StepCell(h, d, cols, rows) == [x |-> (h.x + d.x + cols) % cols, y |-> (h.y + d.y + rows) % rows]

InGrid(c, cols, rows) == c.x \in 0..(cols - 1) /\ c.y \in 0..(rows - 1)

\* the direction a chatgpt tick of this state uses, and the head it computes
ChatStep == StepCell(snake[1], IF nextDir # null THEN nextDir ELSE dir, GRID_COLS, GRID_ROWS)
\* the head an agent update of this state computes
AgentStep == StepCell(snakeRef[1], velocityRef, ROWS, ROWS)

\* C1: in both implementations every snake cell of every reachable state lies
\* inside the grid, 0 <= x < COLS and 0 <= y < ROWS.
C1_SnakeInGrid ==
    /\ \A i \in 1..Len(snake) : InGrid(snake[i], GRID_COLS, GRID_ROWS)
    /\ \A i \in 1..Len(snakeRef) : InGrid(snakeRef[i], ROWS, ROWS)

\* the agent's head has just left the board on the right and come back at x = 0
C1_Witness ==
    /\ impl = "agent"
    /\ prevMove = Right
    /\ snakeRef[1].x = 0

\* C2: in both implementations the food cell never coincides with a snake
\* cell (initially, after a reset, after a non-terminal advance), as long as a
\* cell is free.  Keys and toggles change neither, so this is a state invariant.
C2_FoodNeverOnSnake ==
    /\ Len(snake) < GRID_COLS * GRID_ROWS => food \notin CellSet(snake)
    /\ Len(snakeRef) < ROWS * ROWS => appleRef \notin CellSet(snakeRef)

\* C3: the persisted high score never decreases, and it changes only to a
\* run's score that is strictly greater than the value stored before.
C3_HighScoreNeverDecreases ==
    [][/\ storage' >= storage
       /\ aStorage' >= aStorage
       /\ storage' # storage => storage' = score /\ score > storage
       /\ aStorage' # aStorage => aStorage' = aScore /\ aScore > aStorage]_vars

\* C4: within a run the head never moves in the exact negation of the
\* direction it moved in at the preceding tick, whatever keys came in between.
C4_NoInstantReversal ==
    [][prevMove # null /\ prevMove' # null => prevMove' # Neg(prevMove)]_vars

\* C5: trySetDir with the exact negation of the active direction changes
\* neither nextDir nor dir; with any other unit direction it sets nextDir to
\* that direction and leaves dir, snake, food, score and speed unchanged.
\* (The second conjunct says that every other direction is in fact taken: a
\* call that wrongly did nothing would be no step at all.)
C5_TrySetDir ==
    /\ [][\A d \in Dirs : trySetDir(d) =>
             IF d = Neg(dir)
             THEN nextDir' = nextDir /\ dir' = dir
             ELSE /\ nextDir' = d
                  /\ dir' = dir
                  /\ snake' = snake
                  /\ food' = food
                  /\ score' = score
                  /\ speed' = speed]_vars
    /\ [](impl = "chatgpt" =>
             \A d \in Dirs \ {Neg(dir)} :
                 nextDir = d \/ ENABLED (trySetDir(d) /\ nextDir' = d))

\* a direction other than the active one is queued
C5_Witness ==
    /\ impl = "chatgpt"
    /\ nextDir \in Dirs
    /\ nextDir # dir

\* C6: growth law, both implementations: an advance whose new head is the food
\* cell lengthens the snake by one and adds one to the score; every other
\* non-terminal advance leaves length and score unchanged.
C6_GrowthLaw ==
    [][/\ tick =>
            IF ChatStep = food
            THEN Len(snake') = Len(snake) + 1 /\ score' = score + 1
            ELSE running' => Len(snake') = Len(snake) /\ score' = score
       /\ update =>
            IF AgentStep = appleRef
            THEN Len(snakeRef') = Len(snakeRef) + 1 /\ aScore' = aScore + 1
            ELSE prevMove' # null => Len(snakeRef') = Len(snakeRef) /\ aScore' = aScore]_vars

\* C7: wraparound, both implementations: the head an advance puts in front of
\* the snake is the old head plus the direction used, each axis modulo the
\* grid; there is no wall.
C7_Wraparound ==
    [][/\ tick /\ running' => snake'[1] = StepCell(snake[1], prevMove', GRID_COLS, GRID_ROWS)
       /\ update /\ prevMove' # null =>
              snakeRef'[1] = StepCell(snakeRef[1], prevMove', ROWS, ROWS)]_vars

\* the chatgpt head has just left the board on the left and come back at
\* x = COLS - 1
C7_Witness ==
    /\ impl = "chatgpt"
    /\ ~terminated
    /\ prevMove = Left
    /\ snake[1].x = GRID_COLS - 1

\* C8: an advance is terminal exactly when its new head is a cell of the
\* snake as it was before the move, the tail cell included.  (A chatgpt tick
\* that is terminal stops the game; an agent update that is terminal starts a
\* new run, which has no previous move.)
C8_TerminalIffOnSnake ==
    [][/\ tick => (~running' <=> ChatStep \in CellSet(snake))
       /\ update => (prevMove' = null <=> AgentStep \in CellSet(snakeRef))]_vars

\* the game is over because the head was about to enter the tail's cell
C8_Witness ==
    /\ impl = "chatgpt"
    /\ terminated
    /\ ~running
    /\ StepCell(snake[1], dir, GRID_COLS, GRID_ROWS) = snake[Len(snake)]

\* C9: a terminal advance leaves snake, food and score as they were, marks the
\* game not running, and raises the high score only if the score exceeded it.
C9_TerminalFrame ==
    [][/\ tick /\ ChatStep \in CellSet(snake) =>
            /\ snake' = snake /\ food' = food /\ score' = score
            /\ ~running'
            /\ highScore' = (IF score > highScore THEN score ELSE highScore)
            /\ storage' = (IF score > storage THEN score ELSE storage)
       /\ update /\ AgentStep \in CellSet(snakeRef) =>
            /\ snakeRef' = snakeRef /\ appleRef' = appleRef /\ aScore' = aScore
            /\ ~aRunning'
            /\ aHighScore' = (IF aScore > aHighScore THEN aScore ELSE aHighScore)
            /\ aStorage' = (IF aScore > aStorage THEN aScore ELSE aStorage)]_vars

\* C10: once a tick has found a self-collision, the game is not running until
\* a reset: toggles and direction inputs do not make it run again.
C10_TerminatedUntilReset == terminated => ~running

\* C11: reset, from any reachable state, yields the fresh initial state: the
\* fixed initial snake, direction (1,0), no pending direction, score 0, the
\* initial speed, running, and a food cell inside the grid that is not a cell
\* of the initial snake.  (The agent resets from the Restart button and from
\* the game-over branch of update.)
C11_ResetFresh ==
    [][/\ resetGame =>
            /\ snake' = INITIAL_SNAKE
            /\ dir' = Right
            /\ nextDir' = null
            /\ score' = 0
            /\ speed' = INITIAL_SPEED * SpeedDen
            /\ running'
            /\ InGrid(food', GRID_COLS, GRID_ROWS)
            /\ food' \notin CellSet(INITIAL_SNAKE)
       /\ restart \/ (update /\ AgentStep \in CellSet(snakeRef)) =>
            /\ snakeRef' = AGENT_SNAKE
            /\ velocityRef' = Right
            /\ aScore' = 0
            /\ scoreRef' = 0
            /\ speedRef' = AGENT_SPEED
            /\ aRunning'
            /\ InGrid(appleRef', ROWS, ROWS)
            /\ appleRef' \notin CellSet(AGENT_SNAKE)]_vars

\* C12: pause gating: while running is false no advance is performed: no
\* step taken while paused, a timer or frame callback, a key or the resume
\* itself, changes the snake, the food, the score or the speed, so that the
\* advance after the resume starts from the state held when the game was
\* paused.  (Only a reset replaces that state.)
C12_PauseGating ==
    [][/\ impl = "chatgpt" /\ ~running /\ ~resetGame =>
            UNCHANGED <<snake, food, score, speed>>
       /\ impl = "agent" /\ ~aRunning /\ ~restart =>
            UNCHANGED <<snakeRef, appleRef, aScore, speedRef>>]_vars

\* the game was paused in the middle of a run and a direction is waiting
C12_Witness ==
    /\ impl = "chatgpt"
    /\ ~running
    /\ ~terminated
    /\ prevMove # null
    /\ nextDir # null

\* C13: snake well-formedness, both implementations: in every reachable state
\* the snake has at least one cell and no cell occurs in it twice.
C13_SnakeWellFormed ==
    /\ Len(snake) >= 1
    /\ \A i, j \in 1..Len(snake) : i # j => snake[i] # snake[j]
    /\ Len(snakeRef) >= 1
    /\ \A i, j \in 1..Len(snakeRef) : i # j => snakeRef[i] # snakeRef[j]

\* a snake that has grown and then turned: its head is off the line of its tail
C13_Witness ==
    /\ impl = "chatgpt"
    /\ Len(snake) > Len(INITIAL_SNAKE)
    /\ prevMove \in {Up, Down}
    /\ snake[1].x # snake[Len(snake)].x
    /\ snake[1].y # snake[Len(snake)].y

\* C14: food placement fails closed: placeFood(snake) returns a cell of the
\* grid that is not a cell of the given snake whenever a cell is free, and the
\* cell (0,0) when the snake occupies the whole grid.
C14_PlaceFoodFailsClosed ==
    callRet # << >> =>
        LET c == callRet[1]
            occupied == CellSet(callArg)
        IN  IF Cardinality(occupied) < GRID_COLS * GRID_ROWS
            THEN InGrid(c, GRID_COLS, GRID_ROWS) /\ c \notin occupied
            ELSE c.x = 0 /\ c.y = 0

\* placeFood has returned for a snake that fills the grid
C14_Witness ==
    /\ callRet # << >>
    /\ Len(callArg) = GRID_COLS * GRID_ROWS

\* C15: effective direction resolution (chatgpt): a tick moves the head in
\* the direction queued since the previous tick, the most recently accepted
\* one when several were queued, and in the active direction when none was;
\* after every tick, terminal or not, no direction is pending and the active
\* direction is the one the tick used.
C15_DirectionResolution ==
    [][tick =>
         LET used == IF queued # null THEN queued ELSE dir
             target == StepCell(snake[1], used, GRID_COLS, GRID_ROWS)
         IN  /\ nextDir' = null
             /\ dir' = used
             /\ IF running'
                THEN snake'[1] = target
                ELSE target \in CellSet(snake)]_vars

\* a tick has just used a queued direction: the snake, which started to the
\* right, has moved down, and nothing is pending
C15_Witness ==
    /\ impl = "chatgpt"
    /\ ~terminated
    /\ prevMove = Down
    /\ dir = Down
    /\ nextDir = null
    /\ snake[1] = StepCell(snake[2], Down, GRID_COLS, GRID_ROWS)

\* C16: body shift, both implementations: after a non-terminal advance that
\* does not eat, the snake is the new head followed by the previous snake
\* without its last cell, in the same order, and the score is unchanged; after
\* an advance that eats, it is the new head followed by the whole previous
\* snake.
C16_BodyShift ==
    [][/\ tick /\ running' =>
            IF ChatStep = food
            THEN snake' = <<ChatStep>> \o snake
            ELSE /\ snake' = <<ChatStep>> \o SubSeq(snake, 1, Len(snake) - 1)
                 /\ score' = score
       /\ update /\ prevMove' # null =>
            IF AgentStep = appleRef
            THEN snakeRef' = <<AgentStep>> \o snakeRef
            ELSE /\ snakeRef' = <<AgentStep>> \o SubSeq(snakeRef, 1, Len(snakeRef) - 1)
                 /\ aScore' = aScore]_vars

\* an agent snake of two cells has just advanced up or down: its second cell
\* is where its head was, and the food is elsewhere
C16_Witness ==
    /\ impl = "agent"
    /\ Len(snakeRef) = 2
    /\ prevMove \in {Up, Down}
    /\ snakeRef[1] = StepCell(snakeRef[2], prevMove, ROWS, ROWS)
    /\ appleRef # snakeRef[1]

\* C17: length/score invariant: in every reachable state the snake's length
\* is the initial length plus the score, 3 + score in chatgpt and 1 + score in
\* the agent, and the score is not negative; a reset takes both back together.
C17_LengthIsInitialPlusScore ==
    /\ score >= 0
    /\ Len(snake) = 3 + score
    /\ aScore >= 0
    /\ Len(snakeRef) = 1 + aScore

\* the chatgpt snake has eaten as often as the bound allows
C17_Witness ==
    /\ impl = "chatgpt"
    /\ score = MaxScore
    /\ Len(snake) = Len(INITIAL_SNAKE) + MaxScore

C19_TickProgress ==
    \/ []<><<tick>>_vars
    \/ []<>(~running)
    \/ []<><<resetGame \/ toggleRunning>>_vars

====
